---- MODULE Spec2Model ----
(***************************************************************************)
(* Registry -> Daemon -> Renderer component relay.                         *)
(*                                                                         *)
(*   renderer    the Renderer process: GraphQLWebSocketClient and its      *)
(*               owner ComponentDisplaySystem (App.js), the WebSocket      *)
(*               objects it created and its pending reconnect timers       *)
(*   sess        the Daemon's subscription-server session of each          *)
(*               Renderer transport                                        *)
(*   daemon      the Daemon processes: ComponentDaemon and its registry    *)
(*               client (part_000)                                         *)
(*   rsess       the Registry's subscription-server session of each Daemon *)
(*   registry    the Registry process: ComponentRegistry (part_002)        *)
(*   daemonUp, registryUp   whether the servers can be reached             *)
(*                                                                         *)
(* Spec explores the Renderer's connection lifecycle against the Daemon,   *)
(* SpecRelay the Daemons against the Registry, SpecEndToEnd the whole      *)
(* chain with a Renderer that connects once.                               *)
(***************************************************************************)
EXTENDS Integers, Sequences, FiniteSets, TLC

\* ------------------------------------------------------------- constants
maxReconnectAttempts == 5
\* attemptReconnect waits 2000 * this.reconnectAttempts milliseconds.
ReconnectBaseDelay == 2000
\* The Daemon's registry client waits 2000 milliseconds before it reconnects.
RegistryReconnectDelay == 2000

\* startRegistry renders a test component 3000 milliseconds after startup.
StartupDelay == 3000
\* The autoRemove of the README's NOTIFICATION example, in milliseconds.
AutoRemoveDelay == 5000

\* ---------------------------------------------------------------- bounds
\* How often the hook's effect runs (mount, cleanup, mount again ...).
MaxMounts == 2
\* How many components the Registry renders.
MaxEvents == 2
\* How many components the Daemon forwards while the Renderer's
\* connection lifecycle is explored.
MaxForwards == 1
\* How often the Registry becomes unreachable.
MaxOutages == 1
\* How many Daemons subscribe to the Registry.
NDaemons == 2
\* Up to how many consecutive reconnection attempts of a Daemon are counted.
MaxLinkRetries == 2

\* A Renderer socket is created by a mount or by the reconnect timer of a
\* socket that closed, so at most MaxMounts sockets exist at a time.
Slots == 1..MaxMounts
NoSocket == 0

Daemons == 1..NDaemons
\* The Daemon the Renderer connects to.
RendererDaemon == 1

ComponentType == {"CARD", "NOTIFICATION", "FORM"}

\* What a caller hands to renderComponent: { type, data }. The last one
\* is a request body without a type.
RenderInputs ==
  { [type |-> "CARD", data |-> "hello"],
    [type |-> "NOTIFICATION", data |-> "bye"],
    [type |-> "undefined", data |-> "hello"] }

\* component.data is a JSON document; the model names the documents it
\* uses. ExpiringData is one with autoRemove: 5000, the others have none.
ExpiringData == "bye, autoRemove 5000"

\* component.data?.autoRemove, 0 where it is absent.
autoRemove(data) == IF data = ExpiringData THEN AutoRemoveDelay ELSE 0

NoComponent == [id |-> 0, type |-> "undefined", data |-> "undefined", createdAt |-> 0]

RendererSubscriptionId == "renderer-subscription"
RegistrySubscriptionId == "registry-sub"

Message(type, id, errors, component) ==
  [type |-> type, id |-> id, errors |-> errors, component |-> component]

ConnectionInit == Message("connection_init", "", FALSE, NoComponent)
ConnectionAck == Message("connection_ack", "", FALSE, NoComponent)
StartMessage(id) == Message("start", id, FALSE, NoComponent)
StopMessage(id) == Message("stop", id, FALSE, NoComponent)

VARIABLES
  renderer,    \* the Renderer process (App.js)
  sess,        \* the Daemon's subscription-server session of each Renderer socket
  daemonUp,    \* whether the Renderer can reach the Daemon
  daemon,      \* the Daemon processes (part_000)
  rsess,       \* the Registry's subscription-server session of each Daemon
  registryUp,  \* whether the Daemons can reach the Registry
  registry,    \* the Registry process (part_002)
  env          \* what the environment may still do, and what the run has shown

vars == <<renderer, sess, daemonUp, daemon, rsess, registryUp, registry, env>>

\* A WebSocket object that is closed and has dispatched its events.
ClosedSocket ==
  [readyState |-> "CLOSED", failed |-> FALSE, promise |-> "settled",
   sent |-> <<>>, inbox |-> <<>>]

\* The delays attemptReconnect can hand to setTimeout, in milliseconds.
Delays == {ReconnectBaseDelay * k : k \in 1..maxReconnectAttempts}
NoTimers == [ms \in Delays |-> 0]

\* Map.set(component.id, component): insertion order of the ids, a known
\* id keeps its place and takes the new value.
MapSet(map, component) ==
  IF \E i \in 1..Len(map) : map[i].id = component.id
  THEN [i \in 1..Len(map) |-> IF map[i].id = component.id THEN component ELSE map[i]]
  ELSE Append(map, component)

\* ===================================================================
\* The subscription server of subscriptions-transport-ws, as the Registry
\* (part_002 168-181) and the Daemon (part_000 245-248) create it: one
\* session per accepted connection; connection_init is answered with
\* connection_ack, start subscribes the session under the client's id
\* (replacing a subscription of the same id), stop unsubscribes that id,
\* and closing the connection releases the session. s.ops are the ids
\* subscribed, s.starts counts the start messages read since the session
\* last had no subscription.
\* ===================================================================
NoSession == [live |-> FALSE, ops |-> {}, starts |-> 0]
NewSession == [live |-> TRUE, ops |-> {}, starts |-> 0]

\* The connection of session s closes: the server unsubscribes every
\* operation of the session and releases it.
serverClose(s) == [s EXCEPT !.live = FALSE, !.ops = {}, !.starts = 0]

\* GraphQL execution of `subscription { componentUpdate | rendererUpdate
\* { id type data createdAt } }` on a published component (typeDefs,
\* part_002 53-80 and part_000 175-198): the four selected fields, or
\* errors when a non-null field is missing or type is no ComponentType.
Execute(component, id) ==
  IF /\ component.id # NoComponent.id
     /\ component.type \in ComponentType
     /\ component.data # NoComponent.data
     /\ component.createdAt # NoComponent.createdAt
  THEN Message("data", id, FALSE,
               [id |-> component.id, type |-> component.type,
                data |-> component.data, createdAt |-> component.createdAt])
  ELSE Message("data", id, TRUE, NoComponent)

serverReply_replay(message) ==
  CASE message.type = "connection_init" -> <<ConnectionAck>>
    [] message.type = "start" ->
         [i \in 1..Len(registry.published) |->
            Execute(registry.published[i], message.id)]
    [] OTHER -> <<>>

serverReply(message) ==
  IF message.type = "connection_init" THEN <<ConnectionAck>> ELSE <<>>

serverSession(s, message) ==
  CASE message.type = "start" ->
         [s EXCEPT !.ops = @ \cup {message.id}, !.starts = @ + 1]
    [] message.type = "stop" ->
         [s EXCEPT !.ops = @ \ {message.id}, !.starts = 0]
    [] OTHER -> s

\* What a publish puts on the transport of session s: one data message
\* per subscription of the session (asyncIterableIterator of the topic).
Deliveries(s, component) ==
  IF s.live /\ s.ops # {}
  THEN <<Execute(component, CHOOSE id \in s.ops : TRUE)>>
  ELSE <<>>

\* ===================================================================
\* GraphQLWebSocketClient (App.js 12-170), as functions of the Renderer
\* state R. R.ws is this.ws (a slot, NoSocket for null), R.sockets the
\* WebSocket objects, R.subscriptions whether the Map holds a callback
\* under 'renderer-subscription', R.timers the pending setTimeout calls
\* of attemptReconnect, counted per delay in milliseconds.
\* ===================================================================

\* send(message): JSON text on this.ws if it is OPEN, else nothing.
send_unguarded(R, message) ==
  IF R.ws # NoSocket
  THEN [R EXCEPT !.sockets[R.ws].sent = Append(@, message)]
  ELSE R

send(R, message) ==
  IF R.ws # NoSocket /\ R.sockets[R.ws].readyState = "OPEN"
  THEN [R EXCEPT !.sockets[R.ws].sent = Append(@, message)]
  ELSE R

startSubscription(R) == send(R, StartMessage(RendererSubscriptionId))

\* ComponentDisplaySystem.handleComponentFromDaemon: the delivery callback.
\* R.delivered records its invocations, R.components is the display Map,
\* R.removals the pending setTimeout(removeComponent) calls in the order
\* they were made.

handleComponentFromDaemon(R, component) ==
  [R EXCEPT !.components = MapSet(@, component),
            !.delivered = Append(@, component),
            !.removals = IF autoRemove(component.data) # 0
                         THEN Append(@, [id |-> component.id,
                                         ms |-> autoRemove(component.data)])
                         ELSE @]

\* ComponentDisplaySystem.removeComponent: Map.delete(componentId).
removeComponent(R, componentId) ==
  [R EXCEPT !.components = SelectSeq(@, LAMBDA c : c.id # componentId)]

\* The setTimeout callback of handleComponentFromDaemon that was set first.
removalTimer(R) == removeComponent([R EXCEPT !.removals = Tail(@)], Head(R.removals).id)

handleMessage(R, message) ==
  CASE message.type = "connection_ack" -> startSubscription(R)
    [] message.type = "data" ->
         IF /\ R.subscriptions
            /\ message.id = RendererSubscriptionId
            /\ message.component # NoComponent
         THEN handleComponentFromDaemon(R, message.component)
         ELSE R
    [] OTHER -> R

\* subscribe(callback) and the cleanup closure it returns.
subscribe(R) == [R EXCEPT !.subscriptions = TRUE]

subscriptionCleanup(R) ==
  LET R1 == [R EXCEPT !.subscriptions = FALSE]
  IN IF R1.connected THEN send(R1, StopMessage(RendererSubscriptionId)) ELSE R1

attemptReconnect_fixedDelay(R) ==
  IF R.reconnectAttempts < maxReconnectAttempts
  THEN [R EXCEPT !.reconnectAttempts = @ + 1,
                 !.timers[ReconnectBaseDelay] = @ + 1]
  ELSE R

attemptReconnect_uncapped(R) ==
  LET k == R.reconnectAttempts + 1
      ms == ReconnectBaseDelay *
              (IF k <= maxReconnectAttempts THEN k ELSE maxReconnectAttempts)
  IN [R EXCEPT !.reconnectAttempts = k, !.timers[ms] = @ + 1]

attemptReconnect(R) ==
  IF R.reconnectAttempts < maxReconnectAttempts
  THEN LET k == R.reconnectAttempts + 1
       IN [R EXCEPT !.reconnectAttempts = k,
                    !.timers[ReconnectBaseDelay * k] = @ + 1]
  ELSE R

\* connect(): new WebSocket in slot t, assigned to this.ws. awaiter is who
\* holds the returned promise: "owner" (ComponentDisplaySystem.connect awaits
\* it) or "timer" (attemptReconnect only attaches a logging catch).
connect_resetsAttempts(R, t, awaiter) ==
  [R EXCEPT !.ws = t,
            !.reconnectAttempts = 0,
            !.sockets[t] = [readyState |-> "CONNECTING", failed |-> FALSE,
                            promise |-> awaiter, sent |-> <<>>, inbox |-> <<>>]]

connect(R, t, awaiter) ==
  [R EXCEPT !.ws = t,
            !.sockets[t] = [readyState |-> "CONNECTING", failed |-> FALSE,
                            promise |-> awaiter, sent |-> <<>>, inbox |-> <<>>]]

\* WebSocket.close(): a connecting socket fails, an open one starts the
\* closing handshake, a closing or closed one is left alone.
close(R, t) ==
  CASE R.sockets[t].readyState = "CONNECTING" ->
         [R EXCEPT !.sockets[t].readyState = "CLOSING", !.sockets[t].failed = TRUE]
    [] R.sockets[t].readyState = "OPEN" ->
         [R EXCEPT !.sockets[t].readyState = "CLOSING"]
    [] OTHER -> R

disconnect(R) == IF R.ws # NoSocket THEN close(R, R.ws) ELSE R

\* ComponentDisplaySystem.notify: the hook's listener is registered
\* while the component is mounted; R.status is the last of 'connected',
\* 'disconnected' and 'connection_error' it was told.
notify(R, type) == IF R.mounted THEN [R EXCEPT !.status = type] ELSE R

\* The continuation of ComponentDisplaySystem.connect after the await.
Display_connected(R) ==
  notify([subscribe(R) EXCEPT !.hasCleanup = TRUE], "connected")

Display_connectFailed(R) == notify(R, "connection_error")

\* ws.onopen of socket t (with the promise's continuation, a microtask).
onopen(R, t) ==
  LET R1 == [R EXCEPT !.sockets[t].readyState = "OPEN",
                      !.sockets[t].promise = "settled",
                      !.connected = TRUE,
                      !.reconnectAttempts = 0]
      R2 == send(R1, ConnectionInit)
  IN IF R.sockets[t].promise = "owner" THEN Display_connected(R2) ELSE R2

\* ws.onerror of socket t: reject(error); it settles a pending promise only.
onerror(R, t) ==
  LET R1 == [R EXCEPT !.sockets[t].promise = "settled"]
  IN IF R.sockets[t].promise = "owner" THEN Display_connectFailed(R1) ELSE R1

\* ws.onclose of socket t.
onclose(R, t) == attemptReconnect([R EXCEPT !.connected = FALSE])

\* The task the browser queues when socket t's connection is closed:
\* readyState CLOSED, an error event if the connection failed, a close event.
closeTask(R, t, failed) ==
  LET R1 == [R EXCEPT !.sockets[t].readyState = "CLOSED"]
      R2 == IF failed THEN onerror(R1, t) ELSE R1
      R3 == onclose(R2, t)
  IN [R3 EXCEPT !.sockets[t] = ClosedSocket]

\* ComponentDisplaySystem.disconnect.
Display_disconnect(R) ==
  LET R1 == IF R.hasCleanup THEN subscriptionCleanup(R) ELSE R
  IN notify(disconnect(R1), "disconnected")

\* ComponentDisplaySystem.connect up to the await.
Display_connect(R, t) == connect(R, t, "owner")

\* The setTimeout callback of attemptReconnect.
reconnectTimer(R, ms, t) == connect([R EXCEPT !.timers[ms] = @ - 1], t, "timer")

\* useComponentDisplay's effect (App.js 321-349): subscribe the hook's
\* listener and connect; its cleanup: unsubscribe the listener and disconnect.
effectMount(R, t) == Display_connect([R EXCEPT !.mounted = TRUE], t)
effectCleanup(R) == Display_disconnect([R EXCEPT !.mounted = FALSE])

FreeSlots(R) == {t \in Slots : R.sockets[t] = ClosedSocket}
FreeSlot(R) == CHOOSE t \in FreeSlots(R) : \A u \in FreeSlots(R) : t <= u

\* ===================================================================
\* ComponentRegistry (part_002 18-47). G.components is the Map, G.minted
\* the number of ids uuidv4() has handed out (each call a fresh id), G.clock
\* the time new Date() reads, G.published what was published on
\* COMPONENT_UPDATE, G.response the body of the last HTTP response,
\* G.timers the delays of the pending setTimeout calls of startRegistry.
\* ===================================================================
NoResponse == [success |-> FALSE, component |-> NoComponent]

renderComponent_keepsLatest(G, input, ts) ==
  LET component == [id |-> G.minted + 1, type |-> input.type,
                    data |-> input.data, createdAt |-> ts]
  IN [G EXCEPT !.minted = @ + 1,
               !.clock = ts,
               !.components = <<component>>,
               !.published = Append(@, component)]

renderComponent(G, input, ts) ==
  LET component == [id |-> G.minted + 1, type |-> input.type,
                    data |-> input.data, createdAt |-> ts]
  IN [G EXCEPT !.minted = @ + 1,
               !.clock = ts,
               !.components = MapSet(@, component),
               !.published = Append(@, component)]

LastPublished(G) == G.published[Len(G.published)]

\* ===================================================================
\* ComponentDaemon (part_000 75-169), as functions of one Daemon's state
\* D. D.registryWs is this.registryWs with the messages in flight on it,
\* D.timers the delays of the pending setTimeout(connectToRegistry) calls,
\* D.components the Map, D.published what was published on RENDERER_UPDATE.
\* ===================================================================
handleComponentFromRegistry_restamped(D, component) ==
  [D EXCEPT !.components = MapSet(@, component),
            !.published = Append(@, [component EXCEPT !.createdAt = @ + 1])]

handleComponentFromRegistry_keepsFirst(D, component) ==
  [D EXCEPT !.components = IF \E i \in 1..Len(@) : @[i].id = component.id
                           THEN @
                           ELSE Append(@, component),
            !.published = Append(@, component)]

handleComponentFromRegistry(D, component) ==
  [D EXCEPT !.components = MapSet(@, component),
            !.published = Append(@, component)]

connectToRegistry(D) ==
  [D EXCEPT !.registryWs = [readyState |-> "CONNECTING", sent |-> <<>>, inbox |-> <<>>]]

registryWs_send(D, message) == [D EXCEPT !.registryWs.sent = Append(@, message)]

registryWs_onopen(D) ==
  registryWs_send([D EXCEPT !.registryWs.readyState = "OPEN"], ConnectionInit)

registryWs_onmessage_noStart(D, message) ==
  IF message.type = "data" /\ ~message.errors /\ message.component # NoComponent
  THEN handleComponentFromRegistry(D, message.component)
  ELSE D

registryWs_onmessage_ignoresErrors(D, message) ==
  LET D1 == IF message.type = "connection_ack"
            THEN registryWs_send(D, StartMessage(RegistrySubscriptionId))
            ELSE D
  IN IF message.type = "data" /\ message.component # NoComponent
     THEN handleComponentFromRegistry(D1, message.component)
     ELSE D1

registryWs_onmessage(D, message) ==
  LET D1 == IF message.type = "connection_ack"
            THEN registryWs_send(D, StartMessage(RegistrySubscriptionId))
            ELSE D
  IN IF message.type = "data" /\ ~message.errors /\ message.component # NoComponent
     THEN handleComponentFromRegistry(D1, message.component)
     ELSE D1

registryWs_onclose_noRetry(D) ==
  [D EXCEPT !.registryWs = [readyState |-> "CLOSED", sent |-> <<>>, inbox |-> <<>>]]

registryWs_onclose_twice(D) ==
  [D EXCEPT !.registryWs = [readyState |-> "CLOSED", sent |-> <<>>, inbox |-> <<>>],
            !.timers = @ \o <<RegistryReconnectDelay, RegistryReconnectDelay>>]

registryWs_onclose(D) ==
  [D EXCEPT !.registryWs = [readyState |-> "CLOSED", sent |-> <<>>, inbox |-> <<>>],
            !.timers = Append(@, RegistryReconnectDelay)]

\* ===================================================================
\* Initial state: the Registry and the Daemons have been started
\* (startDaemon calls daemon.start(), which connects), the Renderer's
\* component is about to mount.
\* ===================================================================
InitRenderer ==
  [ws |-> NoSocket,
   sockets |-> [t \in Slots |-> ClosedSocket],
   subscriptions |-> FALSE,
   connected |-> FALSE,
   reconnectAttempts |-> 0,
   timers |-> NoTimers,
   hasCleanup |-> FALSE,
   components |-> <<>>,
   removals |-> <<>>,
   mounted |-> FALSE,
   status |-> "connecting",
   delivered |-> <<>>]

InitDaemon ==
  [components |-> <<>>,
   published |-> <<>>,
   registryWs |-> [readyState |-> "CONNECTING", sent |-> <<>>, inbox |-> <<>>],
   timers |-> <<>>]

InitRegistry ==
  [components |-> <<>>, published |-> <<>>, minted |-> 0, clock |-> 1,
   response |-> NoResponse, timers |-> <<StartupDelay>>]

\* ===================================================================
\* Renderer <-> Daemon actions
\* ===================================================================

\* Nothing is scheduled and nothing is in progress: every socket is closed
\* and no reconnect timer is pending.
GaveUp ==
  /\ \A t \in Slots : renderer.sockets[t] = ClosedSocket
  /\ renderer.timers = NoTimers

\* The client used up its attempts and nothing more is scheduled.
Exhausted == GaveUp /\ renderer.reconnectAttempts = maxReconnectAttempts

\* env.sinceOpen after the close event of a socket took the Renderer from
\* R to R1: one more if a reconnection attempt was scheduled.
Scheduled(e, R, R1) ==
  [e EXCEPT !.sinceOpen = IF R1.timers # R.timers THEN @ + 1 ELSE @]

\* this.ws is there and OPEN.
transportOpen(R) == R.ws # NoSocket /\ R.sockets[R.ws].readyState = "OPEN"

\* env.dropped after a handler that called send with a message of the
\* given type while the Renderer was in state R, and after one that did
\* not call send.
Dropped(e, R, type) ==
  [e EXCEPT !.dropped = IF transportOpen(R) THEN "" ELSE type]

NothingDropped(e) == [e EXCEPT !.dropped = ""]

\* The hook's effect runs: ComponentDisplaySystem.connect().
Mount ==
  /\ ~renderer.mounted
  /\ env.mounts > 0
  /\ renderer' = effectMount(renderer, FreeSlot(renderer))
  /\ sess' = [sess EXCEPT ![FreeSlot(renderer)] = NoSession]
  /\ env' = [env EXCEPT !.mounts = @ - 1, !.suppressed = FALSE, !.lost = FALSE,
                         !.afterGiveUp = Exhausted, !.dropped = ""]
  /\ UNCHANGED <<daemonUp, daemon, rsess, registryUp, registry>>

\* The effect's cleanup runs: ComponentDisplaySystem.disconnect().
Unmount ==
  /\ renderer.mounted
  /\ renderer' = effectCleanup(renderer)
  /\ env' = IF renderer.hasCleanup /\ renderer.connected
            THEN Dropped([env EXCEPT !.suppressed = TRUE], renderer, "stop")
            ELSE NothingDropped([env EXCEPT !.suppressed = TRUE])
  /\ UNCHANGED <<sess, daemonUp, daemon, rsess, registryUp, registry>>

\* A reconnect timer set for ms milliseconds fires.
TimerFire(ms) ==
  /\ renderer.timers[ms] > 0
  /\ renderer' = reconnectTimer(renderer, ms, FreeSlot(renderer))
  /\ sess' = [sess EXCEPT ![FreeSlot(renderer)] = NoSession]
  /\ env' = NothingDropped(
        [env EXCEPT !.attempts = IF env.unreachable THEN @ + 1 ELSE @])
  /\ UNCHANGED <<daemonUp, daemon, rsess, registryUp, registry>>

\* The Daemon accepts connecting socket t.
WsOpen(t) ==
  /\ renderer.sockets[t].readyState = "CONNECTING"
  /\ daemonUp
  /\ renderer' = onopen(renderer, t)
  /\ sess' = [sess EXCEPT ![t] = NewSession]
  /\ env' = Dropped([env EXCEPT !.sinceOpen = 0],
                     [renderer EXCEPT !.sockets[t].readyState = "OPEN"],
                     "connection_init")
  /\ UNCHANGED <<daemonUp, daemon, rsess, registryUp, registry>>

\* Connecting socket t cannot reach the Daemon.
WsFail(t) ==
  /\ renderer.sockets[t].readyState = "CONNECTING"
  /\ ~daemonUp
  /\ renderer' = closeTask(renderer, t, TRUE)
  /\ sess' = [sess EXCEPT ![t] = NoSession]
  /\ env' = NothingDropped(Scheduled(env, renderer, closeTask(renderer, t, TRUE)))
  /\ UNCHANGED <<daemonUp, daemon, rsess, registryUp, registry>>

\* Open socket t, whose Daemon end is gone, is found closed.
WsLost(t) ==
  /\ renderer.sockets[t].readyState = "OPEN"
  /\ ~sess[t].live
  /\ renderer' = closeTask(renderer, t, TRUE)
  /\ sess' = [sess EXCEPT ![t] = NoSession]
  /\ env' = NothingDropped(Scheduled(
        [env EXCEPT !.attempts = 0, !.unreachable = ~daemonUp, !.lost = TRUE],
        renderer, closeTask(renderer, t, TRUE)))
  /\ UNCHANGED <<daemonUp, daemon, rsess, registryUp, registry>>

\* Socket t, closed by close(), finishes closing.
WsClosed(t) ==
  /\ renderer.sockets[t].readyState = "CLOSING"
  /\ renderer' = closeTask(renderer, t, renderer.sockets[t].failed)
  /\ sess' = [sess EXCEPT ![t] = NoSession]
  /\ env' = NothingDropped(Scheduled(env, renderer,
                      closeTask(renderer, t, renderer.sockets[t].failed)))
  /\ UNCHANGED <<daemonUp, daemon, rsess, registryUp, registry>>

\* ws.onmessage of open socket t.
ClientRecv(t) ==
  /\ renderer.sockets[t].readyState = "OPEN"
  /\ renderer.sockets[t].inbox # <<>>
  /\ renderer' = handleMessage(
        [renderer EXCEPT !.sockets[t].inbox = Tail(@)],
        Head(renderer.sockets[t].inbox))
  /\ env' = IF Head(renderer.sockets[t].inbox).type = "connection_ack"
            THEN Dropped(env, renderer, "start")
            ELSE NothingDropped(env)
  /\ UNCHANGED <<sess, daemonUp, daemon, rsess, registryUp, registry>>

\* The Daemon's subscription server reads a message of session t.
ServerRecv(t) ==
  /\ sess[t].live
  /\ renderer.sockets[t].sent # <<>>
  /\ LET message == Head(renderer.sockets[t].sent)
     IN /\ renderer' = [renderer EXCEPT
              !.sockets[t].sent = Tail(@),
              !.sockets[t].inbox = @ \o serverReply(message)]
        /\ sess' = [sess EXCEPT ![t] = serverSession(@, message)]
  /\ UNCHANGED <<daemonUp, daemon, rsess, registryUp, registry, env>>

\* The Daemon becomes unreachable: every session it had is gone.
DaemonDown ==
  /\ daemonUp
  /\ daemonUp' = FALSE
  /\ sess' = [t \in Slots |-> serverClose(sess[t])]
  /\ UNCHANGED <<renderer, daemon, rsess, registryUp, registry, env>>

DaemonUp ==
  /\ ~daemonUp
  /\ daemonUp' = TRUE
  /\ env' = [env EXCEPT !.unreachable = FALSE, !.attempts = 0]
  /\ UNCHANGED <<renderer, sess, daemon, rsess, registryUp, registry>>

\* pubsub.publish('RENDERER_UPDATE', { rendererUpdate: component }) reaches
\* the Renderer sessions subscribed at the Daemon.
publishRendererUpdate(R, s, component) ==
  [R EXCEPT !.sockets = [t \in Slots |->
      [R.sockets[t] EXCEPT !.inbox = @ \o Deliveries(s[t], component)]]]

\* The Daemon's registry client hands it a component (the hop from the
\* Registry taken as one step).
DaemonForward(input) ==
  /\ daemonUp
  /\ env.events > 0
  /\ LET n == Len(daemon[RendererDaemon].published) + 1
         component == [id |-> n, type |-> input.type, data |-> input.data,
                       createdAt |-> n]
     IN /\ daemon' = [daemon EXCEPT ![RendererDaemon] =
                        handleComponentFromRegistry(@, component)]
        /\ renderer' = publishRendererUpdate(renderer, sess, component)
  /\ env' = [env EXCEPT !.events = @ - 1,
                         !.restarted = \E t \in Slots : sess[t].starts > 1]
  /\ UNCHANGED <<sess, daemonUp, rsess, registryUp, registry>>

\* env.mounts, env.events and env.outages are what the environment may
\* still do. The other fields observe the run: env.suppressed, whether
\* disconnect() was the owner's last call; env.lost, whether the Renderer
\* lost an open transport since the owner's last connect();
\* env.afterGiveUp, whether the client had used up its attempts and stopped
\* when the owner last called connect(); env.unreachable, whether the
\* Renderer lost a transport and the Daemon has been unreachable ever since;
\* env.attempts, how many reconnect timers fired since that loss;
\* env.sinceOpen, how many reconnection attempts the client has scheduled
\* since a transport of it last opened; env.restarted, whether the Daemon's
\* last publish found a Renderer session that had read a repeated start;
\* env.expected, the components of a schema type the Registry published
\* while the Renderer's Daemon was subscribed to it and the Renderer to that
\* Daemon; env.joined[d], how many components the Registry had published
\* when it processed the start of Daemon d's session; env.heard[d], the
\* data messages Daemon d's client has received since; env.retries[d], how
\* many reconnect timers of Daemon d fired since its transport last opened
\* (counted up to MaxLinkRetries); env.missed[d], the ids of the components
\* the Registry rendered while it held no subscription of Daemon d;
\* env.errorSeen[d], whether Daemon d's client has been handed a message of
\* type 'error'; env.dropped, the type of the message the Renderer's last
\* handler called send with while this.ws was absent or not open ("" if it
\* did not).
InitEnv(mounts, events, outages) ==
  [mounts |-> mounts, events |-> events, outages |-> outages,
   suppressed |-> FALSE, lost |-> FALSE, afterGiveUp |-> FALSE,
   attempts |-> 0, unreachable |-> FALSE, sinceOpen |-> 0, restarted |-> FALSE,
   expected |-> <<>>,
   joined |-> [d \in Daemons |-> 0],
   heard |-> [d \in Daemons |-> <<>>],
   retries |-> [d \in Daemons |-> 0],
   missed |-> [d \in Daemons |-> {}],
   errorSeen |-> [d \in Daemons |-> FALSE],
   dropped |-> ""]

DaemonSubscribed(d) ==
  /\ daemon[d].registryWs.readyState = "OPEN"
  /\ rsess[d].live
  /\ rsess[d].ops # {}

\* Socket t is open and the Daemon holds a subscription for it.
Subscribed(t) ==
  /\ renderer.sockets[t].readyState = "OPEN"
  /\ sess[t].live
  /\ sess[t].ops # {}

RendererSubscribed == \E t \in Slots : Subscribed(t)

Init ==
  /\ renderer = InitRenderer
  /\ sess = [t \in Slots |-> NoSession]
  /\ daemonUp \in BOOLEAN
  /\ daemon = [d \in Daemons |-> InitDaemon]
  /\ rsess = [d \in Daemons |-> NoSession]
  /\ registryUp = TRUE
  /\ registry = InitRegistry
  /\ env = InitEnv(MaxMounts, MaxForwards, 0)

\* ===================================================================
\* Registry <-> Daemon actions
\* ===================================================================

\* pubsub.publish('COMPONENT_UPDATE', { componentUpdate: component }) reaches
\* the Daemon sessions subscribed at the Registry.
publishComponentUpdate_firstOnly(DD, ss, component) ==
  [d \in Daemons |->
     IF d = 1
     THEN [DD[d] EXCEPT !.registryWs.inbox = @ \o Deliveries(ss[d], component)]
     ELSE DD[d]]

publishComponentUpdate_stopsAtClosed(DD, ss, component) ==
  [d \in Daemons |->
     IF \A e \in Daemons : e < d => ss[e].live
     THEN [DD[d] EXCEPT !.registryWs.inbox = @ \o Deliveries(ss[d], component)]
     ELSE DD[d]]

publishComponentUpdate(DD, ss, component) ==
  [d \in Daemons |->
     [DD[d] EXCEPT !.registryWs.inbox = @ \o Deliveries(ss[d], component)]]

\* env after renderComponent created and published component.
Created(e, component) ==
  [e EXCEPT
     !.events = @ - 1,
     !.missed = [d \in Daemons |->
                   IF rsess[d].live /\ rsess[d].ops # {}
                   THEN @[d]
                   ELSE @[d] \cup {component.id}],
     !.expected = IF /\ DaemonSubscribed(RendererDaemon)
                     /\ RendererSubscribed
                     /\ component.type \in ComponentType
                  THEN Append(@, component)
                  ELSE @]

\* POST /render (part_002 120-125): renderComponent, then
\* res.json({ success: true, component }).
Render(input, ts) ==
  /\ env.events > 0
  /\ registry' = [renderComponent(registry, input, ts) EXCEPT
                    !.response = [success |-> TRUE, component |-> LastPublished(
                                    renderComponent(registry, input, ts))]]
  /\ daemon' = publishComponentUpdate(daemon, rsess, LastPublished(registry'))
  /\ env' = Created(env, LastPublished(registry'))
  /\ UNCHANGED <<renderer, sess, daemonUp, rsess, registryUp>>

\* What the test component of startRegistry is rendered from.
StartupInput == [type |-> "NOTIFICATION", data |-> "Registry is active and ready!"]

\* The startup timer of startRegistry fires (part_002 189-199):
\* renderComponent, no response.
StartupTimer(ts) ==
  /\ registry.timers # <<>>
  /\ env.events > 0
  /\ registry' = [renderComponent(registry, StartupInput, ts) EXCEPT !.timers = Tail(@)]
  /\ daemon' = publishComponentUpdate(daemon, rsess, LastPublished(registry'))
  /\ env' = Created(env, LastPublished(registry'))
  /\ UNCHANGED <<renderer, sess, daemonUp, rsess, registryUp>>

\* Arguments of Mutation.renderComponent; the schema lets through only
\* those with type: ComponentType! and data: JSON!.
MutationInputs == {[type |-> "CARD", data |-> "hello"]}

\* The resolver Mutation.renderComponent (part_002 92-97): renderComponent;
\* the component is the result of the mutation, no REST response is written.
Mutation_renderComponent(input, ts) ==
  /\ env.events > 0
  /\ registry' = renderComponent(registry, input, ts)
  /\ daemon' = publishComponentUpdate(daemon, rsess, LastPublished(registry'))
  /\ env' = Created(env, LastPublished(registry'))
  /\ UNCHANGED <<renderer, sess, daemonUp, rsess, registryUp>>

\* The Registry accepts Daemon d's connecting socket.
LinkOpen(d) ==
  /\ daemon[d].registryWs.readyState = "CONNECTING"
  /\ registryUp
  /\ daemon' = [daemon EXCEPT ![d] = registryWs_onopen(@)]
  /\ rsess' = [rsess EXCEPT ![d] = NewSession]
  /\ env' = [env EXCEPT !.retries[d] = 0]
  /\ UNCHANGED <<renderer, sess, daemonUp, registryUp, registry>>

\* Daemon d's connecting socket cannot reach the Registry (onerror logs,
\* onclose follows).
LinkFail(d) ==
  /\ daemon[d].registryWs.readyState = "CONNECTING"
  /\ ~registryUp
  /\ daemon' = [daemon EXCEPT ![d] = registryWs_onclose(@)]
  /\ UNCHANGED <<renderer, sess, daemonUp, rsess, registryUp, registry, env>>

\* Daemon d's open socket, whose Registry end is gone, is found closed.
LinkLost(d) ==
  /\ daemon[d].registryWs.readyState = "OPEN"
  /\ ~rsess[d].live
  /\ daemon' = [daemon EXCEPT ![d] = registryWs_onclose(@)]
  /\ UNCHANGED <<renderer, sess, daemonUp, rsess, registryUp, registry, env>>

\* Daemon d's reconnect timer fires: connectToRegistry().
LinkTimer(d) ==
  /\ daemon[d].timers # <<>>
  /\ daemon' = [daemon EXCEPT ![d] = connectToRegistry([@ EXCEPT !.timers = Tail(@)])]
  /\ env' = [env EXCEPT !.retries[d] = IF @ < MaxLinkRetries THEN @ + 1 ELSE @]
  /\ UNCHANGED <<renderer, sess, daemonUp, rsess, registryUp, registry>>

\* The Registry's subscription server reads a message of Daemon d.
RegistryRecv(d) ==
  /\ rsess[d].live
  /\ daemon[d].registryWs.sent # <<>>
  /\ LET message == Head(daemon[d].registryWs.sent)
     IN /\ daemon' = [daemon EXCEPT
              ![d].registryWs.sent = Tail(@),
              ![d].registryWs.inbox = @ \o serverReply(message)]
        /\ rsess' = [rsess EXCEPT ![d] = serverSession(@, message)]
        /\ env' = IF message.type = "start"
                  THEN [env EXCEPT !.joined[d] = Len(registry.published),
                                   !.heard[d] = <<>>]
                  ELSE env
  /\ UNCHANGED <<renderer, sess, daemonUp, registryUp, registry>>

\* registryWs.onmessage of Daemon d; what it publishes on RENDERER_UPDATE
\* reaches the Renderer sessions of the Renderer's Daemon.
DaemonRecv(d) ==
  /\ daemon[d].registryWs.readyState = "OPEN"
  /\ daemon[d].registryWs.inbox # <<>>
  /\ LET D1 == [daemon[d] EXCEPT !.registryWs.inbox = Tail(@)]
         D2 == registryWs_onmessage(D1, Head(daemon[d].registryWs.inbox))
     IN /\ daemon' = [daemon EXCEPT ![d] = D2]
        /\ renderer' =
             IF d = RendererDaemon /\ Len(D2.published) > Len(D1.published)
             THEN publishRendererUpdate(renderer, sess, D2.published[Len(D2.published)])
             ELSE renderer
  /\ env' = [env EXCEPT
        !.heard[d] = IF Head(daemon[d].registryWs.inbox).type = "data"
                     THEN Append(@, Head(daemon[d].registryWs.inbox))
                     ELSE @,
        !.errorSeen[d] = @ \/ Head(daemon[d].registryWs.inbox).type = "error"]
  /\ UNCHANGED <<sess, daemonUp, rsess, registryUp, registry>>

\* The Registry becomes unreachable: every session it had is gone.
RegistryDown ==
  /\ registryUp
  /\ env.outages > 0
  /\ registryUp' = FALSE
  /\ rsess' = [d \in Daemons |-> serverClose(rsess[d])]
  /\ env' = [env EXCEPT !.outages = @ - 1]
  /\ UNCHANGED <<renderer, sess, daemonUp, daemon, registry>>

\* The connection between Daemon d and the Registry breaks: the Registry's
\* server closes the session; the Daemon's socket finds out later.
LinkDrop(d) ==
  /\ registryUp
  /\ rsess[d].live
  /\ env.outages > 0
  /\ rsess' = [rsess EXCEPT ![d] = serverClose(@)]
  /\ env' = [env EXCEPT !.outages = @ - 1]
  /\ UNCHANGED <<renderer, sess, daemonUp, daemon, registryUp, registry>>

RegistryUp ==
  /\ ~registryUp
  /\ registryUp' = TRUE
  /\ UNCHANGED <<renderer, sess, daemonUp, daemon, rsess, registry, env>>

Next ==
  \/ Mount
  \/ Unmount
  \/ \E ms \in Delays : TimerFire(ms)
  \/ \E t \in Slots : WsOpen(t)
  \/ \E t \in Slots : WsFail(t)
  \/ \E t \in Slots : WsLost(t)
  \/ \E t \in Slots : WsClosed(t)
  \/ \E t \in Slots : ClientRecv(t)
  \/ \E t \in Slots : ServerRecv(t)
  \/ DaemonDown
  \/ DaemonUp
  \/ \E input \in {i \in RenderInputs : i.type \in ComponentType} :
        DaemonForward(input)

Spec == Init /\ [][Next]_vars

\* ---- The relay: Registry, Daemons and their registry clients ----
InitRelay ==
  /\ renderer = InitRenderer
  /\ sess = [t \in Slots |-> NoSession]
  /\ daemonUp = TRUE
  /\ daemon = [d \in Daemons |-> InitDaemon]
  /\ rsess = [d \in Daemons |-> NoSession]
  /\ registryUp = TRUE
  /\ registry = InitRegistry
  /\ env = InitEnv(0, MaxEvents, MaxOutages)

\* The entries of startRegistry that call renderComponent. Each runs in
\* the millisecond of the previous reading of the time or later: a request
\* or a mutation as it is served, the startup timer as its callback runs.
NextRegistry ==
  \/ \E input \in RenderInputs, ts \in {registry.clock, registry.clock + 1} :
        Render(input, ts)
  \/ \E input \in MutationInputs, ts \in {registry.clock, registry.clock + 1} :
        Mutation_renderComponent(input, ts)
  \/ \E ts \in {registry.clock, registry.clock + 1} : StartupTimer(ts)

NextRelay ==
  \/ NextRegistry
  \/ \E d \in Daemons : LinkOpen(d)
  \/ \E d \in Daemons : LinkFail(d)
  \/ \E d \in Daemons : LinkLost(d)
  \/ \E d \in Daemons : LinkTimer(d)
  \/ \E d \in Daemons : RegistryRecv(d)
  \/ \E d \in Daemons : DaemonRecv(d)
  \/ \E d \in Daemons : LinkDrop(d)
  \/ RegistryDown
  \/ RegistryUp

SpecRelay == InitRelay /\ [][NextRelay]_vars

\* ---- The relay with the Registry's other HTTP endpoints ----
\* What POST /test-subscription publishes: id 'test-' + Date.now() from
\* one reading of the time (idTs), createdAt from the next (ts).
TestComponent(idTs, ts) ==
  [id |-> 0 - idTs, type |-> "NOTIFICATION",
   data |-> "Test message from debug endpoint", createdAt |-> ts]

\* POST /test-subscription (part_002 128-139): pubsub.publish without
\* renderComponent, then res.json({ message }).
TestSubscription(idTs, ts) ==
  /\ env.events > 0
  /\ registry' = [registry EXCEPT !.clock = ts,
                                  !.published = Append(@, TestComponent(idTs, ts)),
                                  !.response = NoResponse]
  /\ daemon' = publishComponentUpdate(daemon, rsess, TestComponent(idTs, ts))
  /\ env' = [env EXCEPT !.events = @ - 1]
  /\ UNCHANGED <<renderer, sess, daemonUp, rsess, registryUp>>

\* GET / (part_002 142-151): res.json of the health document, which has
\* no success and no component; nothing else changes.
HealthCheck ==
  /\ registry' = [registry EXCEPT !.response = NoResponse]
  /\ UNCHANGED <<renderer, sess, daemonUp, daemon, rsess, registryUp, env>>

\* The relay with the endpoints of startRegistry that do not call
\* renderComponent. Each reading of the time gives the millisecond of the
\* previous reading or a later one.
NextIngress ==
  \/ NextRelay
  \/ \E idTs \in {registry.clock, registry.clock + 1} :
       \E ts \in {idTs, idTs + 1} : TestSubscription(idTs, ts)
  \/ HealthCheck

SpecIngress == InitRelay /\ [][NextIngress]_vars

\* ---- End to end: Registry, Daemons and a Renderer that mounts once ----
InitEndToEnd ==
  /\ renderer = InitRenderer
  /\ sess = [t \in Slots |-> NoSession]
  /\ daemonUp \in BOOLEAN
  /\ daemon = [d \in Daemons |-> InitDaemon]
  /\ rsess = [d \in Daemons |-> NoSession]
  /\ registryUp = TRUE
  /\ registry = InitRegistry
  /\ env = InitEnv(MaxMounts, MaxEvents, 0)

MountOnce == env.mounts = MaxMounts /\ Mount

NextEndToEnd ==
  \/ NextRegistry
  \/ \E d \in Daemons : LinkOpen(d)
  \/ \E d \in Daemons : RegistryRecv(d)
  \/ \E d \in Daemons : DaemonRecv(d)
  \/ MountOnce
  \/ \E ms \in Delays : TimerFire(ms)
  \/ \E t \in Slots : WsOpen(t)
  \/ \E t \in Slots : WsFail(t)
  \/ \E t \in Slots : ClientRecv(t)
  \/ \E t \in Slots : ServerRecv(t)
  \/ DaemonUp

SpecEndToEnd == InitEndToEnd /\ [][NextEndToEnd]_vars

\* ===================================================================
\* Renderer client: reconnection, delivery and cancellation
\* ===================================================================
Connecting(R) == {t \in Slots : R.sockets[t].readyState = "CONNECTING"}
Live(R) == {t \in Slots : R.sockets[t].readyState \in {"CONNECTING", "OPEN"}}

\* C1: after the owner's disconnect(), and until the owner calls connect()
\* again, the client opens no new transport, whatever events follow.
C1_NoReconnectAfterDisconnect ==
  [][(env.suppressed /\ (env').suppressed)
       => Connecting(renderer') \subseteq Connecting(renderer)]_vars

\* C2: when the client lost its transport and the Daemon has been
\* unreachable ever since, the client makes at most maxReconnectAttempts
\* reconnection attempts, and once nothing more is scheduled it has made
\* exactly maxReconnectAttempts.
C2_ExactlyCapAttempts ==
  env.unreachable =>
    /\ env.attempts <= maxReconnectAttempts
    /\ GaveUp => env.attempts = maxReconnectAttempts

\* The event loop runs what is ready: timers fire, sockets report what
\* happened to them, messages in flight are read.
LiveSpec ==
  /\ Init
  /\ [][Next]_vars
  /\ \A ms \in Delays : WF_vars(TimerFire(ms))
  /\ \A t \in Slots :
       /\ WF_vars(WsOpen(t))
       /\ WF_vars(WsFail(t))
       /\ WF_vars(WsLost(t))
       /\ WF_vars(WsClosed(t))
       /\ WF_vars(ClientRecv(t))
       /\ WF_vars(ServerRecv(t))

\* Socket t is about to hand its client a data message of the subscription.
DataNext(t) ==
  /\ renderer.sockets[t].inbox # <<>>
  /\ Head(renderer.sockets[t].inbox).type = "data"
  /\ Head(renderer.sockets[t].inbox).id = RendererSubscriptionId
  /\ Head(renderer.sockets[t].inbox).component # NoComponent

\* Socket t hands its client the head of its inbox in this step.
Receives(t) ==
  /\ renderer.sockets[t].readyState = "OPEN"
  /\ renderer.sockets[t].inbox # <<>>
  /\ (renderer').sockets[t].readyState = "OPEN"
  /\ (renderer').sockets[t].inbox = Tail(renderer.sockets[t].inbox)

\* The owner is connected, the client lost its transport, the Daemon is
\* reachable and the reconnection attempts are not used up.
Recovering ==
  /\ env.lost
  /\ renderer.mounted
  /\ renderer.subscriptions
  /\ daemonUp
  /\ renderer.reconnectAttempts < maxReconnectAttempts \/ ~GaveUp

Resubscribed ==
  /\ renderer.subscriptions
  /\ \E t \in Slots : Subscribed(t)

\* C3: when the client lost its transport and the Daemon is reachable again
\* before the attempts are used up, then, unless the Daemon goes away again
\* or the owner disconnects, the client is eventually Subscribed again (a
\* new transport is open and the Daemon holds its subscription, so init,
\* ack and start have passed), and every data message it then receives
\* reaches the owner's callback.
C3_RecoversWhenServerReturns ==
  /\ Recovering ~> (Resubscribed \/ ~daemonUp \/ ~renderer.mounted)
  /\ [][\A t \in Slots :
          (renderer.subscriptions /\ Subscribed(t) /\ DataNext(t) /\ Receives(t))
            => (renderer').delivered =
                 Append(renderer.delivered, Head(renderer.sockets[t].inbox).component)]_vars

C3_Witness ==
  /\ env.lost
  /\ renderer.mounted
  /\ Resubscribed
  /\ renderer.delivered # <<>>

\* C4: while the owner is connected and the client is Subscribed on socket
\* t, a data message received on t invokes the callback exactly once with
\* that message's component, in receipt order.
C4_DataForwardedInOrder ==
  [][\A t \in Slots :
       (renderer.mounted /\ Subscribed(t) /\ DataNext(t) /\ Receives(t))
         => (renderer').delivered =
              Append(renderer.delivered, Head(renderer.sockets[t].inbox).component)]_vars

\* C5: after the owner's disconnect() has returned, and until the owner
\* calls connect() again, the delivery callback is not invoked.
C5_NoCallbackAfterDisconnect ==
  [][(env.suppressed /\ (env').suppressed)
       => (renderer').delivered = renderer.delivered]_vars

\* C6: at most one transport of the client is open or connecting.
C6_OneTransport == Cardinality(Live(renderer)) <= 1

\* ===================================================================
\* The relay: fan-out at the Registry, pass-through at the Daemon
\* ===================================================================
IsComponentEvent(m) ==
  /\ m.type = "data"
  /\ ~m.errors
  /\ m.component # NoComponent

\* Daemon d's registry client is handed the head of its inbox in this step.
LinkReceives(d) ==
  /\ daemon[d].registryWs.readyState = "OPEN"
  /\ daemon[d].registryWs.inbox # <<>>
  /\ (daemon')[d].registryWs.readyState = "OPEN"
  /\ (daemon')[d].registryWs.inbox = Tail(daemon[d].registryWs.inbox)

\* C7: what a Daemon has published on RENDERER_UPDATE grows by exactly the
\* component of each component event its registry client receives, with
\* id, type, data and createdAt unchanged, and changes in no other step.
C7_DaemonPassThrough ==
  [][\A d \in Daemons :
       (daemon')[d].published =
         IF LinkReceives(d) /\ IsComponentEvent(Head(daemon[d].registryWs.inbox))
         THEN Append(daemon[d].published, Head(daemon[d].registryWs.inbox).component)
         ELSE daemon[d].published]_vars

C7_Witness ==
  \E d \in Daemons :
    /\ Len(daemon[d].published) >= 2
    /\ daemon[d].published = registry.published

\* ---- end to end ----
Count(q, x) == Cardinality({i \in 1..Len(q) : q[i] = x})

\* Nothing is in flight between the Registry and the Renderer's callback.
Quiet ==
  /\ daemon[RendererDaemon].registryWs.inbox = <<>>
  /\ \A t \in Slots : renderer.sockets[t].inbox = <<>>

\* C8: a component published at the Registry while the Daemon is
\* Subscribed to the Registry and the Renderer to that Daemon invokes the
\* Renderer's callback at most once, and exactly once when nothing is in
\* flight any more, with the id, type, data and createdAt the Registry minted.
C8_EndToEndExactlyOnce ==
  \A i \in 1..Len(env.expected) :
    /\ Count(renderer.delivered, env.expected[i]) <= 1
    /\ Quiet => Count(renderer.delivered, env.expected[i]) = 1

\* ---- fan-out at the Registry ----
DataIn(q) == SelectSeq(q, LAMBDA m : m.type = "data")

\* One data message per component the Registry published since it
\* processed the start of Daemon d's session, in publish order.
SinceJoin(d) ==
  [i \in 1..(Len(registry.published) - env.joined[d]) |->
     Execute(registry.published[env.joined[d] + i], RegistrySubscriptionId)]

\* C9: every Daemon subscribed at the Registry has received, or has in
\* flight on its transport, exactly one data message per publish made since
\* it joined, in publish order.
C9_EachSubscriberOnceInOrder ==
  \A d \in Daemons :
    DaemonSubscribed(d) =>
      env.heard[d] \o DataIn(daemon[d].registryWs.inbox) = SinceJoin(d)

C9_Witness ==
  \A d \in Daemons :
    /\ DaemonSubscribed(d)
    /\ Len(env.heard[d]) >= 2

ComponentsOf(q) ==
  {q[i].component : i \in {j \in 1..Len(q) : IsComponentEvent(q[j])}}

\* C10: a Daemon subscribed at the Registry is delivered no component that
\* was published before the Registry processed its start; what it is
\* delivered was published after.
C10_NoHistory ==
  \A d \in Daemons :
    DaemonSubscribed(d) =>
      \A c \in ComponentsOf(env.heard[d] \o daemon[d].registryWs.inbox) :
        /\ \A i \in 1..env.joined[d] : registry.published[i] # c
        /\ \E i \in (env.joined[d] + 1)..Len(registry.published) :
             registry.published[i] = c

C10_Witness ==
  \E d \in Daemons :
    /\ DaemonSubscribed(d)
    /\ env.joined[d] >= 1
    /\ ComponentsOf(env.heard[d]) # {}

\* ===================================================================
\* The Registry: publishing and ingress
\* ===================================================================

\* The Registry publishes on COMPONENT_UPDATE in this step.
Publishes == Len((registry').published) = Len(registry.published) + 1

\* The data message a subscriber is sent for that publish.
PublishedMessage == Execute(LastPublished(registry'), RegistrySubscriptionId)

\* renderComponent runs in this step (for POST /render, the mutation or the
\* startup timer).
Creates == (registry').minted = registry.minted + 1

\* POST /render is answered in this step.
Renders == Creates /\ (registry').response # registry.response

\* C13: rendering is never held back by the subscribers: whatever their
\* state, it can be done, it stores the component, publishes it and answers
\* success with it; each subscribed session is sent the event whatever
\* happened to the other sessions, and a closed one is sent nothing.
C13_FireAndForget ==
  /\ [](env.events > 0 => ENABLED (\E input \in RenderInputs : Render(input, registry.clock)))
  /\ [][Creates =>
          /\ (registry').published =
                Append(registry.published, LastPublished(registry'))
          /\ \E i \in 1..Len((registry').components) :
                (registry').components[i] = LastPublished(registry')
          /\ Renders => (registry').response =
                [success |-> TRUE, component |-> LastPublished(registry')]
          /\ \A d \in Daemons :
                (daemon')[d].registryWs.inbox =
                  IF rsess[d].live /\ rsess[d].ops # {}
                  THEN Append(daemon[d].registryWs.inbox, PublishedMessage)
                  ELSE daemon[d].registryWs.inbox]_vars

\* The connection of subscriber d failed unnoticed, the Registry rendered
\* a component after that and answered success, and another subscriber
\* has been sent it.
C13_Witness ==
  \E d, e \in Daemons :
    /\ ~rsess[d].live
    /\ daemon[d].registryWs.readyState = "OPEN"
    /\ env.heard[d] # <<>>
    /\ Len(SinceJoin(d)) >
         Len(env.heard[d]) + Len(DataIn(daemon[d].registryWs.inbox))
    /\ registry.response = [success |-> TRUE, component |-> LastPublished(registry)]
    /\ DaemonSubscribed(e)
    /\ daemon[e].registryWs.inbox # <<>>
    /\ daemon[e].registryWs.inbox[Len(daemon[e].registryWs.inbox)] =
         Execute(LastPublished(registry), RegistrySubscriptionId)

\* C14: a render request without a type creates no event: no component
\* without a type is ever stored or published.
C14_TypeRequired ==
  /\ \A i \in 1..Len(registry.components) :
        registry.components[i].type # NoComponent.type
  /\ \A i \in 1..Len(registry.published) :
        registry.published[i].type # NoComponent.type

\* C15: every component published on COMPONENT_UPDATE was minted by
\* renderComponent and is among the stored components from the moment it
\* is published.
C15_OnlyRenderComponentPublishes ==
  \A i \in 1..Len(registry.published) :
    /\ registry.published[i].id \in 1..registry.minted
    /\ \E j \in 1..Len(registry.components) :
          registry.components[j] = registry.published[i]

\* ===================================================================
\* The Daemon's registry client: reconnection
\* ===================================================================

\* C16 (as stated): the Daemon's client retries with a delay that grows
\* with the number of consecutive attempts, and after MaxLinkRetries failed attempts in a row
\* it schedules no further one.
C16_DaemonCappedReconnection ==
  \A d \in Daemons :
    daemon[d].registryWs.readyState = "CLOSED" =>
      IF env.retries[d] < MaxLinkRetries
      THEN daemon[d].timers = <<RegistryReconnectDelay * (env.retries[d] + 1)>>
      ELSE daemon[d].timers = <<>>

\* C16 (amended): whenever the Daemon's registry transport is closed, one
\* reconnection attempt is pending, set for RegistryReconnectDelay
\* milliseconds, however many attempts in a row have failed.
C16_DaemonRetriesForever ==
  \A d \in Daemons :
    daemon[d].registryWs.readyState = "CLOSED" =>
      daemon[d].timers = <<RegistryReconnectDelay>>

C16_Witness ==
  \E d \in Daemons :
    /\ env.retries[d] = MaxLinkRetries
    /\ daemon[d].registryWs.readyState = "CLOSED"
    /\ daemon[d].timers = <<RegistryReconnectDelay>>

\* The Daemons' event loops and the Registry's server run what is ready.
LiveRelay ==
  /\ InitRelay
  /\ [][NextRelay]_vars
  /\ \A d \in Daemons :
       /\ WF_vars(LinkOpen(d))
       /\ WF_vars(LinkFail(d))
       /\ WF_vars(LinkLost(d))
       /\ WF_vars(LinkTimer(d))
       /\ WF_vars(RegistryRecv(d))
       /\ WF_vars(DaemonRecv(d))

\* The components of the component events in q, in order.
ComponentSeq(q) ==
  [i \in 1..Len(SelectSeq(q, IsComponentEvent)) |->
     SelectSeq(q, IsComponentEvent)[i].component]

\* The last n elements of q.
LastN(q, n) == [i \in 1..n |-> q[Len(q) - n + i]]

\* C17: once a Daemon's registry transport has closed, then, unless the
\* Registry is unreachable, the Daemon is eventually subscribed again (a
\* new transport is open and the Registry holds its subscription, so init,
\* ack and start have passed); and a subscribed Daemon has received or has
\* in flight every event published since its start was processed, and has
\* forwarded each component event it received.
C17_DaemonRecovers ==
  /\ \A d \in Daemons :
        (daemon[d].registryWs.readyState = "CLOSED")
          ~> (DaemonSubscribed(d) \/ ~registryUp)
  /\ [](\A d \in Daemons :
          DaemonSubscribed(d) =>
            /\ env.heard[d] \o DataIn(daemon[d].registryWs.inbox) = SinceJoin(d)
            /\ Len(daemon[d].published) >= Len(ComponentSeq(env.heard[d]))
            /\ LastN(daemon[d].published, Len(ComponentSeq(env.heard[d])))
                 = ComponentSeq(env.heard[d]))

\* Daemon d forwarded a component, lost its transport, subscribed again
\* and forwarded a component published after that.
C17_Witness ==
  \E d \in Daemons :
    /\ DaemonSubscribed(d)
    /\ env.joined[d] >= 1
    /\ ComponentSeq(env.heard[d]) # <<>>
    /\ Len(daemon[d].published) > Len(ComponentSeq(env.heard[d]))

\* ===================================================================
\* Renderer client: giving up
\* ===================================================================

\* C18: when the client has used up its attempts and stopped, its owner
\* has been notified that the connection is down: the status the hook's
\* listener was last told is not 'connected'.
C18_GiveUpReported ==
  (renderer.mounted /\ Exhausted)
    => renderer.status \in {"disconnected", "connection_error"}

\* Socket t, created by the owner's connect(), fails to reach the Daemon
\* in this step.
OwnerConnectFails(t) ==
  /\ renderer.sockets[t].readyState = "CONNECTING"
  /\ renderer.sockets[t].promise = "owner"
  /\ (renderer').sockets[t] = ClosedSocket

\* C19: when the owner calls connect() after the client gave up, the
\* attempt counter is reset, and if that connect() fails to reach the
\* Daemon the client schedules an automatic attempt again.
C19_ConnectResetsAttempts ==
  [][/\ (Exhausted /\ ~renderer.mounted /\ (renderer').mounted)
          => (renderer').reconnectAttempts = 0
     /\ \A t \in Slots :
          (env.afterGiveUp /\ OwnerConnectFails(t))
            => (renderer').timers # NoTimers]_vars

\* ===================================================================
\* Renderer client: the delay of a reconnection attempt
\* ===================================================================

\* C20: the k-th reconnection attempt the client schedules since a
\* transport last opened is set for ReconnectBaseDelay * k milliseconds,
\* with k from 1 to maxReconnectAttempts (2000, 4000, 6000, 8000, 10000):
\* the delay grows with each consecutive failure and is ReconnectBaseDelay
\* again after a successful open.
C20_LinearDelay ==
  [][\A ms \in Delays :
       (renderer').timers[ms] > renderer.timers[ms]
         => /\ (env').sinceOpen \in 1..maxReconnectAttempts
            /\ ms = ReconnectBaseDelay * (env').sinceOpen
            /\ (env').sinceOpen = env.sinceOpen + 1]_vars

\* The fifth attempt in a row is pending, set for 10000 milliseconds.
C20_Witness ==
  /\ env.sinceOpen = maxReconnectAttempts
  /\ renderer.timers[ReconnectBaseDelay * maxReconnectAttempts] > 0

\* ===================================================================
\* The protocol on a transport: init, ack, start, stop
\* ===================================================================

\* Renderer socket t opens in this step.
Opens(t) ==
  /\ renderer.sockets[t].readyState = "CONNECTING"
  /\ (renderer').sockets[t].readyState = "OPEN"

\* Renderer socket t is handed a connection_ack in this step.
AckReceived(t) ==
  /\ Receives(t)
  /\ Head(renderer.sockets[t].inbox).type = "connection_ack"

\* The client sends message on socket t in this step.
Sends(t, message) ==
  /\ (renderer').sockets[t].readyState = "OPEN"
  /\ (renderer').sockets[t].sent # <<>>
  /\ (renderer').sockets[t].sent[Len((renderer').sockets[t].sent)] = message
  /\ \/ renderer.sockets[t].readyState # "OPEN"
     \/ Len((renderer').sockets[t].sent) > Len(renderer.sockets[t].sent)

\* The same for Daemon d's registry socket.
LinkOpens(d) ==
  /\ daemon[d].registryWs.readyState = "CONNECTING"
  /\ (daemon')[d].registryWs.readyState = "OPEN"

LinkAckReceived(d) ==
  /\ LinkReceives(d)
  /\ Head(daemon[d].registryWs.inbox).type = "connection_ack"

LinkSends(d, message) ==
  /\ (daemon')[d].registryWs.readyState = "OPEN"
  /\ (daemon')[d].registryWs.sent # <<>>
  /\ (daemon')[d].registryWs.sent[Len((daemon')[d].registryWs.sent)] = message
  /\ \/ daemon[d].registryWs.readyState # "OPEN"
     \/ Len((daemon')[d].registryWs.sent) > Len(daemon[d].registryWs.sent)

\* C21: a transport that opens is sent connection_init as its first
\* message, in the step it opens and in no other; a start is sent on a
\* transport exactly in the steps that transport receives connection_ack,
\* one start per ack. This holds of the Renderer's sockets and of the
\* Daemons' registry sockets.
C21_InitThenStartAfterAck ==
  [][/\ \A t \in Slots :
          /\ Opens(t) => (renderer').sockets[t].sent = <<ConnectionInit>>
          /\ Sends(t, ConnectionInit) => Opens(t)
          /\ AckReceived(t) =>
                (renderer').sockets[t].sent =
                  Append(renderer.sockets[t].sent, StartMessage(RendererSubscriptionId))
          /\ Sends(t, StartMessage(RendererSubscriptionId)) => AckReceived(t)
     /\ \A d \in Daemons :
          /\ LinkOpens(d) => (daemon')[d].registryWs.sent = <<ConnectionInit>>
          /\ LinkSends(d, ConnectionInit) => LinkOpens(d)
          /\ LinkAckReceived(d) =>
                (daemon')[d].registryWs.sent =
                  Append(daemon[d].registryWs.sent, StartMessage(RegistrySubscriptionId))
          /\ LinkSends(d, StartMessage(RegistrySubscriptionId)) => LinkAckReceived(d)]_vars

\* The owner calls disconnect() in this step.
Disconnects == renderer.mounted /\ ~(renderer').mounted

\* C22: when the owner calls disconnect() while socket t is Subscribed, a
\* stop for the subscription is written to t before t is closed.
C22_StopBeforeClose ==
  [][\A t \in Slots :
       (Disconnects /\ Subscribed(t))
         => /\ (renderer').sockets[t].sent =
                 Append(renderer.sockets[t].sent, StopMessage(RendererSubscriptionId))
            /\ (renderer').sockets[t].readyState = "CLOSING"]_vars

\* ===================================================================
\* Renderer: connection status and the connected flag
\* ===================================================================

\* C24: while the hook is mounted, the status it shows is 'connected'
\* only while a transport of the client is open.
C24_StatusFollowsTransport ==
  (renderer.mounted /\ renderer.status = "connected")
    => \E t \in Slots : renderer.sockets[t].readyState = "OPEN"

\* The client has sent start on open socket t.
StartSent(t) ==
  /\ renderer.sockets[t].readyState = "OPEN"
  /\ \/ \E i \in 1..Len(renderer.sockets[t].sent) :
          renderer.sockets[t].sent[i] = StartMessage(RendererSubscriptionId)
     \/ Subscribed(t)

\* C25: while the owner is connected (it has not called disconnect()) and
\* the client has sent start on an open transport, a callback is registered
\* under 'renderer-subscription'.
C25_CallbackRegisteredWhenStarted ==
  (renderer.mounted /\ \E t \in Slots : StartSent(t)) => renderer.subscriptions

\* Socket t has dispatched its open event and not yet its close event.
Opened(t) ==
  \/ renderer.sockets[t].readyState = "OPEN"
  \/ renderer.sockets[t].readyState = "CLOSING" /\ ~renderer.sockets[t].failed

\* C26: the client's connected flag is true exactly when its current
\* WebSocket (this.ws) is open.
C26_ConnectedIffCurrentOpen ==
  renderer.connected <=> (renderer.ws # NoSocket /\ Opened(renderer.ws))

\* ===================================================================
\* The Daemon's registry client: one connection in flight
\* ===================================================================

\* Daemon d's open or connecting registry transports plus its pending
\* reconnect timers.
InFlight(d) ==
  (IF daemon[d].registryWs.readyState \in {"CONNECTING", "OPEN"} THEN 1 ELSE 0)
    + Len(daemon[d].timers)

\* C27: a Daemon has at most one registry connection in flight, and it
\* creates a registry socket only when the previous one is closed.
C27_OneRegistryConnection ==
  /\ [](\A d \in Daemons : InFlight(d) <= 1)
  /\ [][\A d \in Daemons :
          (/\ (daemon')[d].registryWs.readyState = "CONNECTING"
           /\ daemon[d].registryWs.readyState # "CONNECTING")
            => /\ daemon[d].registryWs.readyState = "CLOSED"
               /\ daemon[d].timers = <<RegistryReconnectDelay>>
               /\ (daemon')[d].timers = <<>>]_vars

\* Daemon d is connecting again after MaxLinkRetries attempts.
C27_Witness ==
  \E d \in Daemons :
    /\ env.retries[d] = MaxLinkRetries
    /\ daemon[d].registryWs.readyState = "CONNECTING"
    /\ daemon[d].timers = <<>>

\* The ids of the components Daemon d has forwarded.
ForwardedIds(d) == {daemon[d].published[i].id : i \in 1..Len(daemon[d].published)}

\* C28: a component the Registry published while it held no subscription
\* of Daemon d is never received by d nor forwarded by it, also after d has
\* reconnected and subscribed again.
C28_NoReplayAcrossReconnection ==
  \A d \in Daemons :
    /\ ForwardedIds(d) \cap env.missed[d] = {}
    /\ \A i \in 1..Len(daemon[d].registryWs.inbox) :
          daemon[d].registryWs.inbox[i].component.id \notin env.missed[d]

\* Daemon d forwarded a component, then missed one, and is subscribed
\* again since.
C28_Witness ==
  \E d \in Daemons :
    /\ DaemonSubscribed(d)
    /\ ForwardedIds(d) # {}
    /\ \E i \in env.missed[d] :
          /\ i <= env.joined[d]
          /\ \A j \in ForwardedIds(d) : j < i

\* ===================================================================
\* Renderer client: the attempt counter
\* ===================================================================

\* C29: the attempt counter is always between 0 and maxReconnectAttempts.
C29_AttemptsInRange ==
  renderer.reconnectAttempts \in 0..maxReconnectAttempts

\* The counter is at the cap and a further close event has left it there:
\* every socket is closed and nothing is scheduled.
C29_Witness ==
  /\ renderer.reconnectAttempts = maxReconnectAttempts
  /\ renderer.timers = NoTimers
  /\ \A t \in Slots : renderer.sockets[t].readyState = "CLOSED"

\* An open socket is found closed in this step.
OpenCloses ==
  \E t \in Slots :
    /\ renderer.sockets[t].readyState = "OPEN"
    /\ (renderer').sockets[t] = ClosedSocket

\* C30: the attempt counter becomes 0 in the steps in which a transport
\* opens; every other step (connect(), disconnect(), a timer, a message
\* received, a close event) leaves it as it is or adds one. So when a
\* transport that had opened closes while the counter is still 0, the
\* counter goes to 1 and an attempt is scheduled after ReconnectBaseDelay.
C30_ResetOnlyOnOpen ==
  [][/\ (\E t \in Slots : Opens(t)) => (renderer').reconnectAttempts = 0
     /\ ~(\E t \in Slots : Opens(t)) =>
          (renderer').reconnectAttempts \in
             {renderer.reconnectAttempts, renderer.reconnectAttempts + 1}
     /\ (OpenCloses /\ renderer.reconnectAttempts = 0) =>
          /\ (renderer').reconnectAttempts = 1
          /\ (renderer').timers[ReconnectBaseDelay] =
                renderer.timers[ReconnectBaseDelay] + 1]_vars

\* A transport that had opened and delivered a component was lost: the
\* counter went from 0 to 1 and one attempt is pending.
C30_Witness ==
  /\ env.lost
  /\ env.sinceOpen = 1
  /\ renderer.reconnectAttempts = 1
  /\ renderer.timers[ReconnectBaseDelay] = 1
  /\ Len(renderer.delivered) = 1
  /\ \A t \in Slots : renderer.sockets[t].readyState = "CLOSED"

\* ===================================================================
\* The Daemon: stored components
\* ===================================================================

\* The last component of q that carries id.
LatestVersion(q, id) ==
  q[CHOOSE i \in 1..Len(q) :
      /\ q[i].id = id
      /\ \A j \in 1..Len(q) : q[j].id = id => j <= i]

\* getComponents() of a Daemon or of the Registry: Array.from(values()).
getComponents(P) == P.components

\* C31: every component a Daemon has published on RENDERER_UPDATE is in its
\* getComponents(), in the latest version published under its id, from the
\* step in which it is published; and no component ever leaves
\* getComponents().
C31_ForwardedAreStored ==
  /\ [](\A d \in Daemons :
          \A i \in 1..Len(daemon[d].published) :
            \E j \in 1..Len(getComponents(daemon[d])) :
              getComponents(daemon[d])[j] =
                LatestVersion(daemon[d].published, daemon[d].published[i].id))
  /\ [][\A d \in Daemons :
          \A j \in 1..Len(getComponents(daemon[d])) :
            \E k \in 1..Len(getComponents(daemon'[d])) :
              getComponents(daemon'[d])[k].id = getComponents(daemon[d])[j].id]_vars

\* A Daemon forwarded two different versions under one id and lists the
\* later one, and only that, for it.
C31_Witness ==
  \E d \in Daemons :
    /\ Len(daemon[d].published) = 2
    /\ daemon[d].published[1].id = daemon[d].published[2].id
    /\ daemon[d].published[1] # daemon[d].published[2]
    /\ getComponents(daemon[d]) = <<daemon[d].published[2]>>

\* ===================================================================
\* The Daemon's registry client: messages that carry no component
\* ===================================================================

\* A component as a result with errors may still carry it (partial data).
PartialComponent == [id |-> 1, type |-> "CARD", data |-> "hello", createdAt |-> 1]

\* What a graphql-ws server can send for the subscription besides a
\* component event: an error message, a result with errors (with or without
\* data) and a result without componentUpdate.
LinkInputs ==
  { Message("error", RegistrySubscriptionId, TRUE, NoComponent),
    Message("data", RegistrySubscriptionId, TRUE, NoComponent),
    Message("data", RegistrySubscriptionId, TRUE, PartialComponent),
    Message("data", RegistrySubscriptionId, FALSE, NoComponent) }

\* The Registry's server sends message on the transport of Daemon d's session.
ServerSends(d, message) ==
  /\ registryUp
  /\ rsess[d].live
  /\ env.events > 0
  /\ daemon' = [daemon EXCEPT ![d].registryWs.inbox = Append(@, message)]
  /\ env' = [env EXCEPT !.events = @ - 1]
  /\ UNCHANGED <<renderer, sess, daemonUp, rsess, registryUp, registry>>

NextLinkInput ==
  \/ NextRelay
  \/ \E d \in Daemons, message \in LinkInputs : ServerSends(d, message)

SpecLinkInput == InitRelay /\ [][NextLinkInput]_vars

\* A message the Daemon's client has no component to take from.
CarriesNoComponent(m) ==
  \/ m.type = "error"
  \/ m.type = "data" /\ (m.errors \/ m.component = NoComponent)

\* C32: when a Daemon's registry client receives a data message with
\* errors or without componentUpdate, or an error message, the Daemon
\* publishes nothing on RENDERER_UPDATE, its components stay as they are,
\* nothing reaches the Renderer, its registry transport stays open with
\* nothing written to it, and no reconnect is scheduled.
C32_ErrorsAreDropped ==
  [][\A d \in Daemons :
       (LinkReceives(d) /\ CarriesNoComponent(Head(daemon[d].registryWs.inbox)))
         => /\ (daemon')[d].published = daemon[d].published
            /\ (daemon')[d].components = daemon[d].components
            /\ (daemon')[d].registryWs =
                 [daemon[d].registryWs EXCEPT !.inbox = Tail(@)]
            /\ (daemon')[d].timers = <<>>
            /\ renderer' = renderer]_vars

\* Daemon d, subscribed, was handed an error message and a result with
\* errors and partial data; it has forwarded nothing, its transport is open
\* and no reconnect is pending.
C32_Witness ==
  \E d \in Daemons :
    /\ DaemonSubscribed(d)
    /\ env.errorSeen[d]
    /\ \E i \in 1..Len(env.heard[d]) :
          env.heard[d][i] = Message("data", RegistrySubscriptionId, TRUE, PartialComponent)
    /\ daemon[d].registryWs.inbox = <<>>
    /\ daemon[d].published = <<>>
    /\ daemon[d].components = <<>>
    /\ daemon[d].timers = <<>>

\* ===================================================================
\* The Registry: stored components
\* ===================================================================

\* C33: the Registry's getComponents() lists every component
\* renderComponent created, in creation order, as many as there were
\* renderComponent calls; a call appends its component and no other step
\* changes the list.
C33_HistoryAppendOnly ==
  /\ [](/\ Len(getComponents(registry)) = MaxEvents - env.events
        /\ \A i \in 1..Len(getComponents(registry)) :
              getComponents(registry)[i].id = i)
  /\ [][getComponents(registry') =
          IF Creates
          THEN Append(getComponents(registry), LastPublished(registry'))
          ELSE getComponents(registry)]_vars

\* The Registry rendered MaxEvents components, lost a connection or was
\* unreachable for a while, and lists them all.
C33_Witness ==
  /\ Len(getComponents(registry)) = MaxEvents
  /\ getComponents(registry) = registry.published
  /\ env.outages = 0
  /\ registryUp

\* ===================================================================
\* The Renderer's display set: auto-removal
\* ===================================================================

\* The ids and documents of the components handed to the display system.
DisplayIds == {1, 2}
DisplayData == {"bye", ExpiringData}

InitDisplay ==
  /\ renderer = InitRenderer
  /\ sess = [t \in Slots |-> NoSession]
  /\ daemonUp = TRUE
  /\ daemon = [d \in Daemons |-> InitDaemon]
  /\ rsess = [d \in Daemons |-> NoSession]
  /\ registryUp = TRUE
  /\ registry = InitRegistry
  /\ env = InitEnv(0, MaxEvents, 0)

\* The client's callback hands the display system a component.
Delivers(id, type, data) ==
  /\ env.events > 0
  /\ renderer' = handleComponentFromDaemon(renderer,
        [id |-> id, type |-> type, data |-> data,
         createdAt |-> Len(renderer.delivered) + 1])
  /\ env' = [env EXCEPT !.events = @ - 1]
  /\ UNCHANGED <<sess, daemonUp, daemon, rsess, registryUp, registry>>

\* The removal timer that was set first fires (they are all set for the
\* same delay).
RemovalTimer ==
  /\ renderer.removals # <<>>
  /\ renderer' = removalTimer(renderer)
  /\ UNCHANGED <<sess, daemonUp, daemon, rsess, registryUp, registry, env>>

NextDisplay ==
  \/ \E id \in DisplayIds, type \in {"CARD", "NOTIFICATION"}, data \in DisplayData :
        Delivers(id, type, data)
  \/ RemovalTimer

SpecDisplay == InitDisplay /\ [][NextDisplay]_vars

\* Component c is in the display set.
Displayed(c) ==
  \E j \in 1..Len(renderer.components) : renderer.components[j] = c

DeliveredIds == {renderer.delivered[i].id : i \in 1..Len(renderer.delivered)}
PendingRemovals == {renderer.removals[i].id : i \in 1..Len(renderer.removals)}

\* C34: the component last delivered under an id stays in the display set
\* for good when it was delivered without autoRemove, and when it was
\* delivered with autoRemove it stays exactly until the timer of that
\* delivery (the last one set for the id) has fired.
C34_ExpiryPerDelivery ==
  \A id \in DeliveredIds :
    LET c == LatestVersion(renderer.delivered, id)
    IN IF autoRemove(c.data) = 0
       THEN Displayed(c)
       ELSE Displayed(c) <=> id \in PendingRemovals

\* ===================================================================
\* Renderer client: send on a transport that is not open
\* ===================================================================

\* Something is written to Renderer socket u in this step.
Writes(u) == Len((renderer').sockets[u].sent) > Len(renderer.sockets[u].sent)

\* What was written to it.
Written(u) == (renderer').sockets[u].sent[Len((renderer').sockets[u].sent)]

\* C35: when send is called while this.ws is absent or not open, nothing
\* is written to any socket and the message is not kept: a transport that
\* receives connection_ack then changes nothing in the client (the start is
\* lost), a transport that opens or an owner that disconnects writes
\* nothing (the init or the stop is lost), and whatever is written to a
\* socket in a step is the message of the handler that runs in that step,
\* written to this.ws, which is open at that moment.
C35_SendWhenNotOpenIsNoOp ==
  [][/\ \A t \in Slots :
          (AckReceived(t) /\ ~transportOpen(renderer))
            => renderer' = [renderer EXCEPT !.sockets[t].inbox = Tail(@)]
     /\ \A t \in Slots :
          (/\ Opens(t)
           /\ ~transportOpen([renderer EXCEPT !.sockets[t].readyState = "OPEN"]))
            => \A u \in Slots : (renderer').sockets[u].sent = renderer.sockets[u].sent
     /\ (Disconnects /\ ~transportOpen(renderer))
            => \A u \in Slots : (renderer').sockets[u].sent = renderer.sockets[u].sent
     /\ \A u \in Slots :
          Writes(u) =>
            /\ renderer.ws = u
            /\ \/ /\ Opens(u)
                  /\ Written(u) = ConnectionInit
               \/ /\ \E t \in Slots : Opens(t)
                  /\ renderer.sockets[u].readyState = "OPEN"
                  /\ Written(u) = ConnectionInit
               \/ /\ \E t \in Slots : AckReceived(t)
                  /\ renderer.sockets[u].readyState = "OPEN"
                  /\ Written(u) = StartMessage(RendererSubscriptionId)
               \/ /\ Disconnects
                  /\ renderer.sockets[u].readyState = "OPEN"
                  /\ Written(u) = StopMessage(RendererSubscriptionId)]_vars

\* A transport has just received connection_ack while this.ws was another
\* socket, still connecting: the start was handed to send in vain, nothing
\* is written to either socket and the Daemon holds no subscription.
C35_Witness ==
  /\ env.dropped = "start"
  /\ renderer.mounted
  /\ renderer.subscriptions
  /\ renderer.sockets[renderer.ws].readyState = "CONNECTING"
  /\ \E t \in Slots : renderer.sockets[t].readyState = "OPEN" /\ sess[t].live
  /\ \A t \in Slots : renderer.sockets[t].sent = <<>> /\ sess[t].ops = {}

====
